---------------------------- MODULE Spec2Model ----------------------------
(***************************************************************************)
(* The produce request of the dataplane protocol                           *)
(* (crates/fluvio-dataplane-protocol/src/produce/request.rs): the          *)
(* version-gated request / topic / partition hierarchy, its derived        *)
(* encoder and decoder, isolation(), and the file_encode path that emits   *)
(* a header buffer plus a list of store values.                            *)
(*                                                                         *)
(* Bytes are integers 0..255, a buffer is a sequence of bytes, a String is *)
(* the sequence of its UTF-8 bytes, and Option<T> is a sequence of length  *)
(* 0 (None) or 1 (Some).  Integers keep their wire width: i16 is two       *)
(* bytes and i32 four bytes, big endian, two's complement.                 *)
(***************************************************************************)
EXTENDS Integers, Sequences, FiniteSets, TLC

VARIABLES
    freq,     \* the request, file-backed payload variant (FileProduceRequest)
    version,  \* the version handed to encode / decode / file_encode
    pc,       \* which operation has run: "new", "encoded", "decoded", "file_encoded", "isolation"
    wire,     \* the bytes encode() produced
    input,    \* the buffer handed to decode
    result,   \* what decode returned to its caller
    broken,   \* the file-backed payloads whose storage access fails
    fres,     \* what file_encode returned, with header_buffer (src) and side_list (data)
    iso       \* what isolation() returned

vars == <<freq, version, pc, wire, input, result, broken, fres, iso>>

-----------------------------------------------------------------------------
(* Bounds of the model                                                      *)

\* most topics in a request
MaxTopics == 2
\* most partitions in a request, over all its topics
MaxParts == 2

-----------------------------------------------------------------------------
(* Program constants                                                        *)

MIN_API_VERSION == 0
MAX_API_VERSION == 7

\* the versions tried: the declared range and one version on each side of it
Versions == (MIN_API_VERSION - 1)..(MAX_API_VERSION + 1)
Supported == MIN_API_VERSION..MAX_API_VERSION

None == <<>>
Some(x) == <<x>>

-----------------------------------------------------------------------------
(* Primitive codec: scalars, strings, options                               *)

IsPrefix(p, s) == Len(p) <= Len(s) /\ SubSeq(s, 1, Len(p)) = p
Drop(s, n) == SubSeq(s, n + 1, Len(s))

EncodeI16(n) ==
    LET u == IF n < 0 THEN n + 65536 ELSE n
    IN  << u \div 256, u % 256 >>

\* four bytes, big endian; a negative n is the complement of -n-1, which keeps
\* every intermediate value inside 32 bits
EncodeI32(n) ==
    LET m == IF n < 0 THEN -n - 1 ELSE n
        b == << m \div 16777216, (m \div 65536) % 256, (m \div 256) % 256, m % 256 >>
    IN  IF n < 0 THEN [i \in 1..4 |-> 255 - b[i]] ELSE b

EncodeBool(b) == IF b THEN <<1>> ELSE <<0>>

EncodeString(s) == EncodeI16(Len(s)) \o s

EncodeOptString(o) ==
    IF o = None THEN EncodeBool(FALSE) ELSE EncodeBool(TRUE) \o EncodeString(o[1])

\* a decode step answers [ok, val, rest]: ok = FALSE is the codec error
Fail(val, rest) == [ok |-> FALSE, val |-> val, rest |-> rest]
Okay(val, rest) == [ok |-> TRUE, val |-> val, rest |-> rest]

DecodeI16(self, buf) ==
    IF Len(buf) < 2 THEN Fail(self, buf)
    ELSE LET u == buf[1] * 256 + buf[2]
         IN  Okay(IF u >= 32768 THEN u - 65536 ELSE u, Drop(buf, 2))

\* DecodeI32 without the check of what is left in the buffer
DecodeI32_NoEofCheck(self, buf) ==
    IF Len(buf) < 4 THEN Okay(self, <<>>)
    ELSE LET neg == buf[1] >= 128
             b == [i \in 1..4 |-> IF neg THEN 255 - buf[i] ELSE buf[i]]
             m == b[1] * 16777216 + b[2] * 65536 + b[3] * 256 + b[4]
         IN  Okay(IF neg THEN -m - 1 ELSE m, Drop(buf, 4))

DecodeI32(self, buf) ==
    IF Len(buf) < 4 THEN Fail(self, buf)
    ELSE LET neg == buf[1] >= 128
             b == [i \in 1..4 |-> IF neg THEN 255 - buf[i] ELSE buf[i]]
             m == b[1] * 16777216 + b[2] * 65536 + b[3] * 256 + b[4]
         IN  Okay(IF neg THEN -m - 1 ELSE m, Drop(buf, 4))

DecodeBool(self, buf) ==
    IF Len(buf) < 1 THEN Fail(self, buf)
    ELSE IF buf[1] = 0 THEN Okay(FALSE, Drop(buf, 1))
    ELSE IF buf[1] = 1 THEN Okay(TRUE, Drop(buf, 1))
    ELSE Fail(self, Drop(buf, 1))

DecodeString(self, buf) ==
    LET l == DecodeI16(0, buf)
    IN  IF ~l.ok THEN Fail(self, buf)
        ELSE IF l.val <= 0 THEN Okay(self, l.rest)
        ELSE IF Len(l.rest) < l.val THEN Fail(self, <<>>)
        ELSE Okay(SubSeq(l.rest, 1, l.val), Drop(l.rest, l.val))

DecodeOptString(self, buf) ==
    LET some == DecodeBool(FALSE, buf)
    IN  IF ~some.ok THEN Fail(self, some.rest)
        ELSE IF some.val
             THEN LET s == DecodeString(<<>>, some.rest)
                  IN  IF s.ok THEN Okay(Some(s.val), s.rest) ELSE Fail(self, s.rest)
             ELSE Okay(None, some.rest)

-----------------------------------------------------------------------------
(* The data model: the structs and the version each field starts at         *)

\* ProduceRequest with transactional_id starting one version late
ProduceRequestFields_LateTid ==
    << [name |-> "transactional_id", ty |-> "OptString",    min_version |-> 4, max_version |-> None],
       [name |-> "acks",             ty |-> "I16",          min_version |-> 0, max_version |-> None],
       [name |-> "timeout_ms",       ty |-> "I32",          min_version |-> 0, max_version |-> None],
       [name |-> "topics",           ty |-> "VecTopic",     min_version |-> 0, max_version |-> None],
       [name |-> "data",             ty |-> "PhantomData",  min_version |-> 0, max_version |-> None] >>

\* ProduceRequest with the min_version attribute of transactional_id left out
ProduceRequestFields_Ungated ==
    << [name |-> "transactional_id", ty |-> "OptString",    min_version |-> 0, max_version |-> None],
       [name |-> "acks",             ty |-> "I16",          min_version |-> 0, max_version |-> None],
       [name |-> "timeout_ms",       ty |-> "I32",          min_version |-> 0, max_version |-> None],
       [name |-> "topics",           ty |-> "VecTopic",     min_version |-> 0, max_version |-> None],
       [name |-> "data",             ty |-> "PhantomData",  min_version |-> 0, max_version |-> None] >>

\* ProduceRequest with acks declared ahead of transactional_id
ProduceRequestFields_AcksFirst ==
    << [name |-> "acks",             ty |-> "I16",          min_version |-> 0, max_version |-> None],
       [name |-> "transactional_id", ty |-> "OptString",    min_version |-> 3, max_version |-> None],
       [name |-> "timeout_ms",       ty |-> "I32",          min_version |-> 0, max_version |-> None],
       [name |-> "topics",           ty |-> "VecTopic",     min_version |-> 0, max_version |-> None],
       [name |-> "data",             ty |-> "PhantomData",  min_version |-> 0, max_version |-> None] >>

\* ProduceRequest with transactional_id closed at the declared maximum version
ProduceRequestFields_ClosedTid ==
    << [name |-> "transactional_id", ty |-> "OptString",    min_version |-> 3, max_version |-> Some(7)],
       [name |-> "acks",             ty |-> "I16",          min_version |-> 0, max_version |-> None],
       [name |-> "timeout_ms",       ty |-> "I32",          min_version |-> 0, max_version |-> None],
       [name |-> "topics",           ty |-> "VecTopic",     min_version |-> 0, max_version |-> None],
       [name |-> "data",             ty |-> "PhantomData",  min_version |-> 0, max_version |-> None] >>

\* #[derive(Encoder, Decoder)] struct ProduceRequest<R>: the fields in
\* declaration order, each with its type, its #[fluvio(min_version)] (0 where
\* the field carries no attribute) and its max_version (None: no field here
\* carries one)
ProduceRequestFields ==
    << [name |-> "transactional_id", ty |-> "OptString",    min_version |-> 3, max_version |-> None],
       [name |-> "acks",             ty |-> "I16",          min_version |-> 0, max_version |-> None],
       [name |-> "timeout_ms",       ty |-> "I32",          min_version |-> 0, max_version |-> None],
       [name |-> "topics",           ty |-> "VecTopic",     min_version |-> 0, max_version |-> None],
       [name |-> "data",             ty |-> "PhantomData",  min_version |-> 0, max_version |-> None] >>

TopicProduceDataFields ==
    << [name |-> "name",       ty |-> "String",       min_version |-> 0, max_version |-> None],
       [name |-> "partitions", ty |-> "VecPartition", min_version |-> 0, max_version |-> None],
       [name |-> "data",       ty |-> "PhantomData",  min_version |-> 0, max_version |-> None] >>

PartitionProduceDataFields ==
    << [name |-> "partition_index", ty |-> "I32",     min_version |-> 0, max_version |-> None],
       [name |-> "records",         ty |-> "Records", min_version |-> 0, max_version |-> None] >>

\* FluvioDefault: every field at its type's default
DefaultProduceRequest ==
    [transactional_id |-> None, acks |-> 0, timeout_ms |-> 0, topics |-> <<>>,
     data |-> "PhantomData"]

DefaultTopicRequest == [name |-> <<>>, partitions |-> <<>>, data |-> "PhantomData"]

DefaultPartitionRequest == [partition_index |-> 0, records |-> <<>>]

\* the in-memory payload is opaque to this layer: its bytes behind an i32 length
EncodeRecords(r) == EncodeI32(Len(r)) \o r

DecodeRecords(self, buf) ==
    LET l == DecodeI32(0, buf)
    IN  IF ~l.ok THEN Fail(self, buf)
        ELSE IF l.val < 0 \/ Len(l.rest) < l.val THEN Fail(self, <<>>)
        ELSE Okay(SubSeq(l.rest, 1, l.val), Drop(l.rest, l.val))

-----------------------------------------------------------------------------
(* The derived Encoder: each field in declaration order, written when the   *)
(* version has reached the field's min_version; the version is handed down  *)
(* unchanged                                                                *)

\* the version check the derive puts around a field
InVersion(f, v) ==
    /\ v >= f.min_version
    /\ (f.max_version = None \/ v <= f.max_version[1])

RECURSIVE EncodeValue(_, _, _), EncodeStruct(_, _, _, _), EncodeVec(_, _, _, _)

EncodeStruct(fields, self, v, i) ==
    IF i > Len(fields) THEN <<>>
    ELSE (IF InVersion(fields[i], v)
          THEN EncodeValue(fields[i].ty, self[fields[i].name], v)
          ELSE <<>>)
         \o EncodeStruct(fields, self, v, i + 1)

\* Vec<T>: the element count as an i32, then the elements in sequence order
EncodeVec(fields, items, v, i) ==
    IF i > Len(items) THEN <<>>
    ELSE EncodeStruct(fields, items[i], v, 1) \o EncodeVec(fields, items, v, i + 1)

EncodeValue(ty, val, v) ==
    CASE ty = "OptString"    -> EncodeOptString(val)
      [] ty = "I16"          -> EncodeI16(val)
      [] ty = "I32"          -> EncodeI32(val)
      [] ty = "String"       -> EncodeString(val)
      [] ty = "Records"      -> EncodeRecords(val)
      [] ty = "PhantomData"  -> <<>>
      [] ty = "VecTopic"     ->
            EncodeI32(Len(val)) \o EncodeVec(TopicProduceDataFields, val, v, 1)
      [] ty = "VecPartition" ->
            EncodeI32(Len(val)) \o EncodeVec(PartitionProduceDataFields, val, v, 1)

\* ProduceRequest::encode
Encode(req, v) == EncodeStruct(ProduceRequestFields, req, v, 1)

-----------------------------------------------------------------------------
(* The derived Decoder: decode(&mut self) fills the fields in declaration   *)
(* order and returns at the first field that fails, leaving the fields read *)
(* so far in self; a field below its min_version keeps its default          *)

RECURSIVE DecodeValue(_, _, _, _), DecodeStruct(_, _, _, _, _), DecodeVec(_, _, _, _, _, _)

DecodeStruct(fields, self, buf, v, i) ==
    IF i > Len(fields) THEN Okay(self, buf)
    ELSE IF InVersion(fields[i], v)
         THEN LET r == DecodeValue(fields[i].ty, self[fields[i].name], buf, v)
              IN  IF ~r.ok THEN Fail(self, r.rest)
                  ELSE DecodeStruct(fields, [self EXCEPT ![fields[i].name] = r.val],
                                    r.rest, v, i + 1)
         ELSE DecodeStruct(fields, self, buf, v, i + 1)

\* decode_vec: n elements, each a default filled by its decode, pushed in read order
DecodeVec(fields, default, acc, n, buf, v) ==
    IF n = 0 THEN Okay(acc, buf)
    ELSE LET r == DecodeStruct(fields, default, buf, v, 1)
         IN  IF ~r.ok THEN Fail(acc, r.rest)
             ELSE DecodeVec(fields, default, Append(acc, r.val), n - 1, r.rest, v)

DecodeValue(ty, self, buf, v) ==
    CASE ty = "OptString"    -> DecodeOptString(self, buf)
      [] ty = "I16"          -> DecodeI16(self, buf)
      [] ty = "I32"          -> DecodeI32(self, buf)
      [] ty = "String"       -> DecodeString(self, buf)
      [] ty = "Records"      -> DecodeRecords(self, buf)
      [] ty = "PhantomData"  -> Okay(self, buf)
      [] ty = "VecTopic"     ->
            LET l == DecodeI32(0, buf)
            IN  IF ~l.ok THEN Fail(self, buf)
                ELSE IF l.val < 1 THEN Okay(self, l.rest)
                ELSE DecodeVec(TopicProduceDataFields, DefaultTopicRequest,
                               self, l.val, l.rest, v)
      [] ty = "VecPartition" ->
            LET l == DecodeI32(0, buf)
            IN  IF ~l.ok THEN Fail(self, buf)
                ELSE IF l.val < 1 THEN Okay(self, l.rest)
                ELSE DecodeVec(PartitionProduceDataFields, DefaultPartitionRequest,
                               self, l.val, l.rest, v)

\* ProduceRequest::decode(&mut self, src, version) on a default request
DecodeInPlace(buf, v) == DecodeStruct(ProduceRequestFields, DefaultProduceRequest, buf, v, 1)

\* Decoder::decode_from: the caller gets the request or the error, never both
DecodeFrom(buf, v) ==
    LET r == DecodeInPlace(buf, v)
    IN  IF r.ok THEN [ok |-> TRUE, value |-> r.val]
        ELSE [ok |-> FALSE, err |-> "codec"]

-----------------------------------------------------------------------------
(* isolation()                                                              *)

\* isolation() matching the one documented negative value only
isolation_OnlyMinusOne(self) ==
    IF self.acks = -1 THEN "ReadCommitted" ELSE "ReadUncommitted"

isolation(self) ==
    IF self.acks < 0 THEN "ReadCommitted" ELSE "ReadUncommitted"

-----------------------------------------------------------------------------
(* The file-backed payload and the store it points into                     *)

\* the bytes of the store's file
StoreFile == <<10, 20, 30>>

\* FileRecordSet: a window (position, len) of the store's file
Slices == { [position |-> 0, len |-> 1], [position |-> 1, len |-> 2] }

\* the bytes a window resolves to
SliceBytes(sl) == SubSeq(StoreFile, sl.position + 1, sl.position + sl.len)

\* the request whose in-memory payloads hold the bytes of the file-backed ones
ToMemory(req) ==
    [req EXCEPT !.topics =
        [t \in DOMAIN req.topics |->
            [req.topics[t] EXCEPT !.partitions =
                [p \in DOMAIN req.topics[t].partitions |->
                    [req.topics[t].partitions[p] EXCEPT
                        !.records = SliceBytes(req.topics[t].partitions[p].records)]]]]]

\* StoreValue: an inline byte span or a reference into the store
BytesValue(b) == [kind |-> "Bytes", bytes |-> b]
FileSliceValue(sl) == [kind |-> "FileSlice", slice |-> sl]

\* a file_encode step answers [ok, src, data]: ok = FALSE is the I/O error,
\* src and data are the caller's header buffer and side list as the step left them
FileRecordSetFileEncode(self, src, data, v, bad) ==
    IF self \in bad THEN [ok |-> FALSE, src |-> src, data |-> data]
    ELSE [ok |-> TRUE, src |-> <<>>,
          data |-> data \o << BytesValue(src \o EncodeI32(self.len)),
                              FileSliceValue(self) >>]

-----------------------------------------------------------------------------
(* FileWrite for FilePartitionRequest, FileTopicRequest, FileProduceRequest *)

\* the partition's file_encode with the result of records.file_encode dropped
FilePartitionRequestFileEncode_IgnoreError(self, src, data, v, bad) ==
    LET r == FileRecordSetFileEncode(self.records,
                                     src \o EncodeI32(self.partition_index), data, v, bad)
    IN  [r EXCEPT !.ok = TRUE]

FilePartitionRequestFileEncode(self, src, data, v, bad) ==
    FileRecordSetFileEncode(self.records, src \o EncodeI32(self.partition_index),
                            data, v, bad)

\* FileWrite for Vec<FilePartitionRequest>: the count, then each element's
\* file_encode in sequence order, returning at the first error
RECURSIVE VecPartitionFileEncodeFrom(_, _, _, _, _, _)
VecPartitionFileEncodeFrom(items, i, src, data, v, bad) ==
    IF i > Len(items) THEN [ok |-> TRUE, src |-> src, data |-> data]
    ELSE LET r == FilePartitionRequestFileEncode(items[i], src, data, v, bad)
         IN  IF ~r.ok THEN r
             ELSE VecPartitionFileEncodeFrom(items, i + 1, r.src, r.data, v, bad)

VecPartitionFileEncode(items, src, data, v, bad) ==
    VecPartitionFileEncodeFrom(items, 1, src \o EncodeI32(Len(items)), data, v, bad)

\* the topic's file_encode with its two statements swapped
FileTopicRequestFileEncode_PartitionsFirst(self, src, data, v, bad) ==
    LET r == VecPartitionFileEncode(self.partitions, src, data, v, bad)
    IN  IF ~r.ok THEN r ELSE [r EXCEPT !.src = r.src \o EncodeString(self.name)]

FileTopicRequestFileEncode(self, src, data, v, bad) ==
    VecPartitionFileEncode(self.partitions, src \o EncodeString(self.name), data, v, bad)

RECURSIVE VecTopicFileEncodeFrom(_, _, _, _, _, _)
VecTopicFileEncodeFrom(items, i, src, data, v, bad) ==
    IF i > Len(items) THEN [ok |-> TRUE, src |-> src, data |-> data]
    ELSE LET r == FileTopicRequestFileEncode(items[i], src, data, v, bad)
         IN  IF ~r.ok THEN r
             ELSE VecTopicFileEncodeFrom(items, i + 1, r.src, r.data, v, bad)

VecTopicFileEncode(items, src, data, v, bad) ==
    VecTopicFileEncodeFrom(items, 1, src \o EncodeI32(Len(items)), data, v, bad)

\* the three scalar fields, each written by its own encode, whatever the version
FileProduceRequestScalars(self, v) ==
    EncodeOptString(self.transactional_id)
        \o EncodeI16(self.acks)
        \o EncodeI32(self.timeout_ms)

FileProduceRequestFileEncode(self, src, data, v, bad) ==
    VecTopicFileEncode(self.topics, src \o FileProduceRequestScalars(self, v), data, v, bad)

\* the transport's replay: the side list in order, each value resolved, then
\* what is left in the header buffer
RECURSIVE Resolve(_)
Resolve(data) ==
    IF data = <<>> THEN <<>>
    ELSE (IF Head(data).kind = "Bytes" THEN Head(data).bytes
          ELSE SliceBytes(Head(data).slice))
         \o Resolve(Tail(data))

Flatten(r) == Resolve(r.data) \o r.src

-----------------------------------------------------------------------------
(* The requests and buffers the operations are tried on                     *)

TransactionalIds == { None, Some(<<>>), Some(<<116>>) }
\* acks and timeout_ms, a pair for each documented acks value
ScalarChoices ==
    { [acks |-> -1, timeout_ms |-> 1500],
      [acks |-> 0,  timeout_ms |-> 0],
      [acks |-> 1,  timeout_ms |-> -1] }
TopicNames == { <<65>>, <<66>> }

PartitionChoices ==
    { [partition_index |-> 0, records |-> [position |-> 0, len |-> 1]],
      [partition_index |-> 1, records |-> [position |-> 1, len |-> 2]] }

SeqsUpTo(S, n) == UNION { [1..k -> S] : k \in 0..n }

TopicChoices ==
    { [name |-> n, partitions |-> ps, data |-> "PhantomData"] :
        n \in TopicNames, ps \in SeqsUpTo(PartitionChoices, MaxParts) }

RECURSIVE CountPartitions(_)
CountPartitions(ts) ==
    IF ts = <<>> THEN 0 ELSE Len(Head(ts).partitions) + CountPartitions(Tail(ts))

TopicSeqs == { ts \in SeqsUpTo(TopicChoices, MaxTopics) : CountPartitions(ts) <= MaxParts }

Requests ==
    { [transactional_id |-> tid, acks |-> sc.acks, timeout_ms |-> sc.timeout_ms,
       topics |-> ts, data |-> "PhantomData"] :
        tid \in TransactionalIds, sc \in ScalarChoices, ts \in TopicSeqs }

\* where timeout_ms starts in the bytes of encode(req, v)
TimeoutOffset(req, v) == Len(EncodeStruct(SubSeq(ProduceRequestFields, 1, 2), req, v, 1))

\* the proper prefixes of buf that end inside timeout_ms
TruncatedMidTimeout(buf, req, v) ==
    { SubSeq(buf, 1, TimeoutOffset(req, v) + k) :
        k \in { j \in 1..3 : TimeoutOffset(req, v) + 4 <= Len(buf) } }

-----------------------------------------------------------------------------
(* The state machine: a request is built, then encoded and decoded, or      *)
(* file-encoded, or asked for its isolation                                 *)

Unset == [ok |-> FALSE, err |-> "unset"]

Init ==
    /\ freq \in Requests
    /\ version \in Versions
    /\ pc = "new"
    /\ wire = <<>>
    /\ input = <<>>
    /\ result = Unset
    /\ broken = {}
    /\ fres = [ok |-> TRUE, src |-> <<>>, data |-> <<>>]
    /\ iso = "unset"

EncodeRequest ==
    /\ pc = "new"
    /\ wire' = Encode(ToMemory(freq), version)
    /\ pc' = "encoded"
    /\ UNCHANGED <<freq, version, input, result, broken, fres, iso>>

DecodeRequest ==
    /\ pc = "encoded"
    /\ \E buf \in {wire} \cup TruncatedMidTimeout(wire, ToMemory(freq), version) :
          /\ input' = buf
          /\ result' = DecodeFrom(buf, version)
    /\ pc' = "decoded"
    /\ UNCHANGED <<freq, version, wire, broken, fres, iso>>

FileEncodeRequest ==
    /\ pc = "new"
    /\ \E bad \in SUBSET Slices :
          /\ broken' = bad
          /\ fres' = FileProduceRequestFileEncode(freq, <<>>, <<>>, version, bad)
    /\ pc' = "file_encoded"
    /\ UNCHANGED <<freq, version, wire, input, result, iso>>

IsolationCall ==
    /\ pc = "new"
    /\ iso' = isolation(freq)
    /\ pc' = "isolation"
    /\ UNCHANGED <<freq, version, wire, input, result, broken, fres>>

Next == EncodeRequest \/ DecodeRequest \/ FileEncodeRequest

Spec == Init /\ [][Next]_vars

\* isolation() over the whole of i16, on a bare request and on a populated one
AllI16 == (-32768)..32767

IsolationRequests ==
    { [r EXCEPT !.acks = a] :
        a \in AllI16,
        r \in { DefaultProduceRequest,
                [transactional_id |-> Some(<<116>>), acks |-> 0, timeout_ms |-> 1500,
                 topics |-> << [name |-> <<65>>, partitions |-> <<>>,
                                data |-> "PhantomData"] >>,
                 data |-> "PhantomData"] } }

InitIsolation ==
    /\ freq \in IsolationRequests
    /\ version = MAX_API_VERSION
    /\ pc = "new"
    /\ wire = <<>>
    /\ input = <<>>
    /\ result = Unset
    /\ broken = {}
    /\ fres = [ok |-> TRUE, src |-> <<>>, data |-> <<>>]
    /\ iso = "unset"

NextIsolation == IsolationCall

SpecIsolation == InitIsolation /\ [][NextIsolation]_vars

-----------------------------------------------------------------------------
(* Properties                                                               *)

\* the request of the state, in-memory payload variant
mreq == ToMemory(freq)

\* decode ran on the whole of what encode produced
DecodedWhole == pc = "decoded" /\ input = wire

\* decode ran on a prefix cut inside timeout_ms
DecodedTruncated == pc = "decoded" /\ input # wire

\* file_encode ran and returned Ok
FileEncoded == pc = "file_encoded" /\ fres.ok

\* the bytes encode writes for the topics
TopicBytes == EncodeValue("VecTopic", mreq.topics, version)

\* the payloads of the request in request -> topic -> partition order
RECURSIVE PayloadsInOrder(_)
PayloadsInOrder(ts) ==
    IF ts = <<>> THEN <<>>
    ELSE [p \in DOMAIN Head(ts).partitions |-> Head(ts).partitions[p].records]
         \o PayloadsInOrder(Tail(ts))

\* the file references of a side list, in list order
RECURSIVE SlicesOf(_)
SlicesOf(data) ==
    IF data = <<>> THEN <<>>
    ELSE (IF Head(data).kind = "FileSlice" THEN << Head(data).slice >> ELSE <<>>)
         \o SlicesOf(Tail(data))

SeqRange(s) == { s[i] : i \in DOMAIN s }

\* C1 as stated: at every version 0..7, decoding what encode produced gives
\* back the request in every field, transactional_id set or not.
C1_RoundTripEveryVersion ==
    (DecodedWhole /\ version \in Supported)
        => (result.ok /\ result.value = mreq)

\* C1 amended: at versions 3..7 decoding what encode produced gives back the
\* request in every field; at versions 0..2 it gives back every field except
\* transactional_id, which comes back None.
C1_RoundTrip ==
    (DecodedWhole /\ version \in Supported)
        => /\ result.ok
           /\ result.value =
                 (IF version >= 3 THEN mreq
                  ELSE [mreq EXCEPT !.transactional_id = None])

C1_Witness ==
    /\ DecodedWhole
    /\ version = 2
    /\ freq.transactional_id = Some(<<116>>)
    /\ Len(freq.topics) = 2
    /\ CountPartitions(freq.topics) = 2
    /\ result.ok
    /\ result.value.transactional_id = None
    /\ result.value.topics = mreq.topics

\* C2: at every version 0..7 the scalar fields file_encode has written ahead of
\* the topics are the bytes encode writes for them, transactional_id written
\* by the one exactly when it is written by the other.
C2_FileHeaderAsEncode ==
    (FileEncoded /\ version \in Supported)
        => SubSeq(Flatten(fres), 1, Len(Flatten(fres)) - Len(TopicBytes))
              = EncodeStruct(SubSeq(ProduceRequestFields, 1, 3), mreq, version, 1)

\* C3: at every version 0..7 the side list resolved in order, followed by what
\* is left of the header buffer, is byte for byte what encode produces.
C3_FlatteningEquivalence ==
    (FileEncoded /\ version \in Supported)
        => Flatten(fres) = Encode(mreq, version)

\* C4: below version 3 the bytes of encode hold no trace of transactional_id:
\* they are acks, timeout_ms and the topics, and stay the same whatever the
\* transactional_id of the request is.
C4_NoTransactionalIdBelow3 ==
    (pc = "encoded" /\ version \in Supported /\ version < 3)
        => /\ wire = EncodeI16(freq.acks) \o EncodeI32(freq.timeout_ms) \o TopicBytes
           /\ \A tid \in TransactionalIds :
                 Encode([mreq EXCEPT !.transactional_id = tid], version) = wire

C4_Witness ==
    /\ pc = "encoded"
    /\ version = 2
    /\ freq.transactional_id = Some(<<116>>)
    /\ SubSeq(wire, 1, 2) = EncodeI16(freq.acks)

\* C5: from version 3 on the bytes of encode start with the nullable string of
\* transactional_id, and decoding them gives back None for None and the empty
\* string for the empty string.
C5_NullableTransactionalId ==
    (DecodedWhole /\ version >= 3)
        => /\ IsPrefix(EncodeOptString(freq.transactional_id), wire)
           /\ (freq.transactional_id = None => wire[1] = 0)
           /\ (freq.transactional_id # None => wire[1] = 1)
           /\ result.ok
           /\ result.value.transactional_id = freq.transactional_id

C5_Witness ==
    /\ DecodedWhole
    /\ version = 3
    /\ freq.transactional_id = None
    /\ result.ok
    /\ result.value.transactional_id = None
    /\ result.value.transactional_id # Some(<<>>)

\* C6: isolation() answers for every acks of i16, ReadCommitted exactly below
\* zero and ReadUncommitted from zero up, whatever the other fields are.
C6_IsolationTotal ==
    pc = "isolation"
        => /\ iso \in {"ReadCommitted", "ReadUncommitted"}
           /\ (iso = "ReadCommitted" <=> freq.acks \in (-32768)..(-1))
           /\ (iso = "ReadUncommitted" <=> freq.acks \in 0..32767)
           /\ iso = isolation([DefaultProduceRequest EXCEPT !.acks = freq.acks])

C6_Witness ==
    /\ pc = "isolation"
    /\ freq.acks = -32768
    /\ freq.topics # <<>>
    /\ iso = "ReadCommitted"

C8_RejectsOutOfRange ==
    (pc = "decoded" /\ version \notin Supported) => ~result.ok

\* C8 amended: decode does not look at the declared range: outside 0..7,
\* decoding what encode produced at that version returns a request, and above
\* 7 the request in every field.
C8_NoRangeCheck ==
    (DecodedWhole /\ version \notin Supported)
        => /\ result.ok
           /\ (version > MAX_API_VERSION => result.value = mreq)

C8_Witness ==
    /\ DecodedWhole
    /\ version = MAX_API_VERSION + 1
    /\ freq.transactional_id = Some(<<116>>)
    /\ freq.topics # <<>>
    /\ result.ok
    /\ result.value = mreq

\* C9: topics and partitions keep their sequence order on both paths: decode
\* returns them at the positions they were encoded from, the file references
\* of the side list are the payloads in request -> topic -> partition order,
\* and the flattened stream carries the topics as encode does.
C9_OrderPreserved ==
    /\ (DecodedWhole /\ version \in Supported)
          => (result.ok /\ result.value.topics = mreq.topics)
    /\ (FileEncoded /\ version \in Supported)
          => /\ SlicesOf(fres.data) = PayloadsInOrder(freq.topics)
             /\ Drop(Flatten(fres), Len(FileProduceRequestScalars(freq, version)))
                   = TopicBytes

C9_Witness ==
    /\ FileEncoded
    /\ version \in Supported
    /\ Len(freq.topics) = 2
    /\ freq.topics[1].name # freq.topics[2].name
    /\ Len(SlicesOf(fres.data)) = 2
    /\ SlicesOf(fres.data)[1] # SlicesOf(fres.data)[2]

\* C10: file_encode fails exactly when a payload it reaches cannot be read;
\* what it then leaves behind is what it had written up to the partition
\* index of the failing partition, nothing of that partition's payload or of
\* what comes after it, and nothing taken back.
C10_FailureKeepsPrefix ==
    pc = "file_encoded"
        => LET full == FileProduceRequestFileEncode(freq, <<>>, <<>>, version, {})
               n == Len(fres.data)
           IN  /\ fres.ok <=> SeqRange(PayloadsInOrder(freq.topics)) \cap broken = {}
               /\ ~fres.ok =>
                     /\ IsPrefix(fres.data, full.data)
                     /\ n + 2 <= Len(full.data)
                     /\ SeqRange(SlicesOf(fres.data)) \cap broken = {}
                     /\ full.data[n + 2].slice \in broken
                     /\ full.data[n + 1].bytes
                           = fres.src \o EncodeI32(full.data[n + 2].slice.len)

C10_Witness ==
    /\ pc = "file_encoded"
    /\ ~fres.ok
    /\ Len(freq.topics) = 2
    /\ Len(fres.data) = 2
    /\ fres.src # <<>>

=============================================================================
